---- MODULE Spec2Model ----
(***************************************************************************)
(* Price-acquisition pipeline of thuisbatterij-simulatie:                  *)
(*   scripts/fetch_energyzero_data.py  (windowed mode,   script = "data")  *)
(*   scripts/fetch_energyzero_rest.py  (whole-year mode, script = "rest")  *)
(*                                                                         *)
(* A civil date is <<year, month, day>>.  An Instant (UTC start of an hour *)
(* range) is the number of hours since 0001-01-01T00:00 UTC.  A local      *)
(* timestamp text 'YYYY-MM-DDTHH:00:00' is <<year, month, day, hour>>; the  *)
(* text order of the zero-padded format is the lexicographic order of the  *)
(* tuple.  The price value of a record is carried through unchanged by     *)
(* every step modelled here and is left out of the records.                *)
(***************************************************************************)
EXTENDS Integers, Sequences, FiniteSets, TLC

\* Size of the input of one run: the number of command-line arguments plus the
\* number of raw records the service delivers.
MaxInput == 3

-----------------------------------------------------------------------------
(* datetime.date arithmetic *)

IsLeap(y) == (y % 4 = 0 /\ y % 100 # 0) \/ (y % 400 = 0)

DaysInMonth(y, m) ==
    IF m = 2 THEN (IF IsLeap(y) THEN 29 ELSE 28)
    ELSE IF m \in {4, 6, 9, 11} THEN 30 ELSE 31

\* Days of the year before the first day of month m
DaysBeforeMonth(y, m) ==
    <<0, 31, 59, 90, 120, 151, 181, 212, 243, 273, 304, 334>>[m]
        + (IF m > 2 /\ IsLeap(y) THEN 1 ELSE 0)

DaysBeforeYear(y) ==
    (y - 1) * 365 + ((y - 1) \div 4) - ((y - 1) \div 100) + ((y - 1) \div 400)

\* date.toordinal(): 0001-01-01 is day 1
ToOrdinal(dt) == DaysBeforeYear(dt[1]) + DaysBeforeMonth(dt[1], dt[2]) + dt[3]

\* date.fromordinal()
FromOrdinal(n) ==
    LET n0   == n - 1
        n400 == n0 \div 146097
        r400 == n0 % 146097
        n100 == r400 \div 36524
        r100 == r400 % 36524
        n4   == r100 \div 1461
        r4   == r100 % 1461
        n1   == r4 \div 365
        r1   == r4 % 365
        y    == n400 * 400 + 1 + n100 * 100 + n4 * 4 + n1
    IN  IF n1 = 4 \/ n100 = 4
        THEN <<y - 1, 12, 31>>
        ELSE LET est == (r1 + 50) \div 32
                 m   == IF DaysBeforeMonth(y, est) > r1 THEN est - 1
                        ELSE IF r1 >= DaysBeforeMonth(y, est) + DaysInMonth(y, est)
                             THEN est + 1 ELSE est
             IN  <<y, m, r1 - DaysBeforeMonth(y, m) + 1>>

Min(a, b) == IF a <= b THEN a ELSE b

\* date <= date
DateLeq(a, b) == ToOrdinal(a) <= ToOrdinal(b)

-----------------------------------------------------------------------------
(* Europe/Amsterdam *)

\* The last Sunday of month m (March or October, 31 days); ordinal 7 is a Sunday.
LastSunday(y, m) == <<y, m, 31 - (ToOrdinal(<<y, m, 31>>) % 7)>>

\* Instant of a UTC date and hour
InstantOf(dt, h) == (ToOrdinal(dt) - 1) * 24 + h

\* UTC year of an Instant
UtcYear(u) == FromOrdinal((u \div 24) + 1)[1]

\* Offset of local time to UTC in hours: CEST from 01:00 UTC on the last Sunday
\* of March until 01:00 UTC on the last Sunday of October, CET otherwise.
UtcOffset(u) ==
    LET y == UtcYear(u)
    IN  IF InstantOf(LastSunday(y, 3), 1) <= u /\ u < InstantOf(LastSunday(y, 10), 1)
        THEN 2 ELSE 1


\* utc_ts.astimezone(ZoneInfo('Europe/Amsterdam')), in hours since 0001-01-01T00:00 local
LocalHours(u) == u + UtcOffset(u)

\* local_ts.year
LocalYear(u) == FromOrdinal((LocalHours(u) \div 24) + 1)[1]

\* local_ts.strftime('%Y-%m-%dT%H:%M:%S')
Strftime(u) ==
    LET d == FromOrdinal((LocalHours(u) \div 24) + 1)
    IN  <<d[1], d[2], d[3], LocalHours(u) % 24>>

\* Order of two timestamp texts
TsLess(a, b) ==
    \E i \in 1..4 : a[i] < b[i] /\ \A j \in 1..(i - 1) : a[j] = b[j]

-----------------------------------------------------------------------------
(* The external service *)

\* Instants the service may report for a year: the hours around both ends of
\* the local year and the two Instants of the repeated hour of the clocks-back day.
FirstHour(y)  == InstantOf(<<y - 1, 12, 31>>, 23)
FallFirst(y)  == InstantOf(LastSunday(y, 10), 0)
FallSecond(y) == InstantOf(LastSunday(y, 10), 1)
NextYearHour(y) == InstantOf(<<y, 12, 31>>, 23)

ServiceInstants(y) == {FirstHour(y), FallFirst(y), FallSecond(y), NextYearHour(y)}

SeqsUpTo(S, n) == UNION {[1..k -> S] : k \in 0..n}

-----------------------------------------------------------------------------
(* Normalizer *)

None == <<>>

Entry(u) == [timestamp |-> Strftime(u), utc |-> u]

\* Variant: the year filter on the UTC year of the Instant
InUtcYear(u, year) == UtcYear(u) = year

\* if local_ts.year != year: continue
InTargetYear(u, year) == LocalYear(u) = year

\* Variant: a record counts as a duplicate when its timestamp text repeats
IsDuplicateByText(u, last_utc) ==
    last_utc # None /\ Strftime(u) = Strftime(last_utc[1])

\* if last_utc and utc_ts == last_utc: continue
IsTrueDuplicate(u, last_utc) == last_utc # None /\ u = last_utc[1]

\* The for loop over energy.timestamp_prices of one response: for every raw
\* record, in order, its Instant and whether it was appended to prices.
RECURSIVE ConvertWindow(_, _, _)
ConvertWindow(resp, year, last_utc) ==
    IF resp = <<>> THEN <<>>
    ELSE LET u == Head(resp)
             k == InTargetYear(u, year) /\ ~IsTrueDuplicate(u, last_utc)
         IN  <<[utc |-> u, kept |-> k]>>
             \o ConvertWindow(Tail(resp), year, IF k THEN <<u>> ELSE last_utc)

\* The for loop over data['Prices'] of the whole-year response
RECURSIVE ConvertRest(_, _)
ConvertRest(resp, year) ==
    IF resp = <<>> THEN <<>>
    ELSE LET u == Head(resp)
             k == InTargetYear(u, year)
         IN  <<[utc |-> u, kept |-> k]>> \o ConvertRest(Tail(resp), year)

\* The entries appended to prices by a conversion loop
RECURSIVE Appended(_)
Appended(lg) ==
    IF lg = <<>> THEN <<>>
    ELSE (IF Head(lg).kept THEN <<Entry(Head(lg).utc)>> ELSE <<>>) \o Appended(Tail(lg))

\* list.sort(key=lambda p: p['timestamp']): stable, ascending by timestamp text
RECURSIVE InsertByTimestamp(_, _)
InsertByTimestamp(sorted, p) ==
    IF sorted = <<>> THEN <<p>>
    ELSE IF TsLess(p.timestamp, Head(sorted).timestamp)
         THEN <<p>> \o sorted
         ELSE <<Head(sorted)>> \o InsertByTimestamp(Tail(sorted), p)

RECURSIVE SortByTimestamp(_)
SortByTimestamp(ps) ==
    IF ps = <<>> THEN <<>>
    ELSE InsertByTimestamp(SortByTimestamp(SubSeq(ps, 1, Len(ps) - 1)), ps[Len(ps)])

\* Variant: count is the number of hours of a common year
YearSeriesFixedCount(year, ps) == [year |-> year, count |-> 365 * 24, prices |-> ps]

\* The dictionary fetch_year / fetch_year_rest returns
YearSeries(year, ps) == [year |-> year, count |-> Len(ps), prices |-> ps]

-----------------------------------------------------------------------------
(* Validator: the checks between the fetch and the return *)

\* day = p['timestamp'][:10]
DayOf(ts) == <<ts[1], ts[2], ts[3]>>

\* int(t[11:13])
HourOf(ts) == ts[4]

\* days_by_date, as the number of entries of every day of the series
DayCounts(ps) ==
    [d \in {DayOf(ps[i].timestamp) : i \in DOMAIN ps} |->
        Cardinality({i \in DOMAIN ps : DayOf(ps[i].timestamp) = d})]

\* days_23h, days_25h, days_incomplete
Days23h(cnt) == {d \in DOMAIN cnt : cnt[d] = 23}
Days25h(cnt) == {d \in DOMAIN cnt : cnt[d] = 25}
DaysIncomplete(cnt) == {d \in DOMAIN cnt : cnt[d] < 23}

\* missing_hours = set(range(24)) - {int(t[11:13]) for t in days_by_date[day]}
MissingHours(ps, d) ==
    (0..23) \ {HourOf(ps[i].timestamp) : i \in {j \in DOMAIN ps : DayOf(ps[j].timestamp) = d}}

\* Variant: only years divisible by 4 count as leap years
ExpectedCountEveryFourth(y) == (IF y % 4 = 0 THEN 366 ELSE 365) * 24

\* expected_count = expected_days * 24
ExpectedCount(y) == (IF IsLeap(y) THEN 366 ELSE 365) * 24

\* fetch_year: if count == expected_count ... else ...
VerdictData(count, expected) == IF count = expected THEN "match" ELSE "differs"

\* fetch_year_rest: if count == expected_count ... elif count == expected_count - 1 ... else ...
VerdictRest(count, expected) ==
    IF count = expected THEN "match"
    ELSE IF count = expected - 1 THEN "one_less" ELSE "differs"

\* No incomplete day is printed
NoDays == [d \in {} |-> {}]

\* What fetch_year prints about the series: the 23-hour days, the 25-hour
\* days and the comparison with the expected count
ValidateData(ps, y) ==
    [days_23h       |-> Days23h(DayCounts(ps)),
     days_25h       |-> Days25h(DayCounts(ps)),
     incomplete     |-> NoDays,
     expected_count |-> ExpectedCount(y),
     verdict        |-> VerdictData(Len(ps), ExpectedCount(y))]

\* What fetch_year_rest prints about the series: as above, and every day of
\* fewer than 23 entries with its missing hours
ValidateRest(ps, y) ==
    [days_23h       |-> Days23h(DayCounts(ps)),
     days_25h       |-> Days25h(DayCounts(ps)),
     incomplete     |-> [d \in DaysIncomplete(DayCounts(ps)) |-> MissingHours(ps, d)],
     expected_count |-> ExpectedCount(y),
     verdict        |-> VerdictRest(Len(ps), ExpectedCount(y))]

-----------------------------------------------------------------------------
(* Command line *)

Digits == {"0", "1", "2", "3", "4", "5", "6", "7", "8", "9"}

DigitValue(c) ==
    CASE c = "0" -> 0 [] c = "1" -> 1 [] c = "2" -> 2 [] c = "3" -> 3 [] c = "4" -> 4
      [] c = "5" -> 5 [] c = "6" -> 6 [] c = "7" -> 7 [] c = "8" -> 8 [] c = "9" -> 9

\* int(arg) succeeds: the argument is a non-empty string of decimal digits
\* (the arguments of ArgPool hold no sign, blank or underscore)
IsInt(arg) == arg # <<>> /\ \A i \in 1..Len(arg) : arg[i] \in Digits

\* int(arg)
RECURSIVE IntOf(_)
IntOf(arg) ==
    IF arg = <<>> THEN 0
    ELSE 10 * IntOf(SubSeq(arg, 1, Len(arg) - 1)) + DigitValue(arg[Len(arg)])

\* The positional arguments a run may be given, each a string of characters
ArgPool == { <<"2", "0", "2", "1">>, <<"2", "0", "2", "4">>, <<"2", "0", "2", "x">> }

TargetYears == { IntOf(a) : a \in {b \in ArgPool : IsInt(b)} }

\* sorted(years)
RECURSIVE InsertYear(_, _)
InsertYear(sorted, y) ==
    IF sorted = <<>> THEN <<y>>
    ELSE IF y < Head(sorted) THEN <<y>> \o sorted
         ELSE <<Head(sorted)>> \o InsertYear(Tail(sorted), y)

RECURSIVE SortedYears(_)
SortedYears(ys) ==
    IF ys = <<>> THEN <<>>
    ELSE InsertYear(SortedYears(SubSeq(ys, 1, Len(ys) - 1)), ys[Len(ys)])

-----------------------------------------------------------------------------
(* State *)

VARIABLES
    script,             \* "data": fetch_energyzero_data.py, "rest": fetch_energyzero_rest.py
    argv,               \* sys.argv[1:]
    output_dir_exists,  \* output_dir.exists()
    files,              \* year -> content of prices_{year}.json: None or <<series>>
    pc,                 \* position of main
    years,              \* main: years
    argi,               \* main: position of the argument loop, 1-based
    sorted_years,       \* main: sorted(years)
    yi,                 \* main: position of the year loop, 1-based
    year,               \* main / fetch_year: year
    current_date,       \* fetch_year: current_date
    end_of_year,        \* fetch_year: end_of_year
    end_date,           \* fetch_year: end_date
    week_num,           \* fetch_year: week_num
    prices,             \* fetch_year / fetch_year_rest: prices
    data,               \* main: data, None or <<series>>
    inflight,           \* the request awaiting its response: None or <<<<from, till>>>>
    log,                \* history: the records of the last response and what became of each
    windows,            \* history: the query windows requested for the current year
    delivered,          \* history: number of raw records the service has delivered
    outcomes,           \* history: per year of the loop, "saved" or "skipped"
    fetched,            \* history: a fetch request has been issued
    fetch_failed,       \* history: a fetch of the current year has failed
    report,             \* what the checks after the fetch printed for the last series: None or <<report>>
    val                 \* the checks applied to day counts alone: None or <<input or result>>

main_vars  == <<script, argv, output_dir_exists, years, argi, sorted_years, yi>>
fetch_vars == <<current_date, end_of_year, end_date, week_num, prices>>
hist_vars  == <<log, windows, delivered, outcomes, fetched, fetch_failed>>
vars == <<script, argv, output_dir_exists, files, pc, years, argi, sorted_years, yi,
          year, current_date, end_of_year, end_date, week_num, prices, data,
          inflight, log, windows, delivered, outcomes, fetched, fetch_failed,
          report, val>>

\* A file left at the destination by an earlier run
OldFile(y) == << [year |-> y, count |-> 1, prices |-> <<Entry(FirstHour(y))>>] >>

Init ==
    /\ script \in {"data", "rest"}
    /\ argv \in SeqsUpTo(ArgPool, MaxInput)
    /\ output_dir_exists \in BOOLEAN
    /\ files \in { [y \in TargetYears |-> None], [y \in TargetYears |-> OldFile(y)] }
    /\ pc = "parse"
    /\ years = <<>>
    /\ argi = 1
    /\ sorted_years = <<>>
    /\ yi = 1
    /\ year = 0
    /\ current_date = None
    /\ end_of_year = None
    /\ end_date = None
    /\ week_num = 0
    /\ prices = <<>>
    /\ data = None
    /\ inflight = None
    /\ log = <<>>
    /\ windows = <<>>
    /\ delivered = 0
    /\ outcomes = <<>>
    /\ fetched = FALSE
    /\ fetch_failed = FALSE
    /\ report = None
    /\ val = None

-----------------------------------------------------------------------------
(* main: command line *)

\* if len(sys.argv) < 2: usage, sys.exit(1)
UsageExit ==
    /\ pc = "parse"
    /\ argv = <<>>
    /\ pc' = "exit1"
    /\ UNCHANGED <<main_vars, fetch_vars, hist_vars, files, year, data, inflight>>
    /\ UNCHANGED <<report, val>>


\* try: year = int(arg); years.append(year)
ParseArg ==
    /\ pc = "parse"
    /\ argi <= Len(argv)
    /\ IsInt(argv[argi])
    /\ years' = Append(years, IntOf(argv[argi]))
    /\ year' = IntOf(argv[argi])
    /\ argi' = argi + 1
    /\ UNCHANGED <<script, argv, output_dir_exists, sorted_years, yi, pc,
                   fetch_vars, hist_vars, files, data, inflight>>
    /\ UNCHANGED <<report, val>>


\* Variant: an invalid argument is skipped
ParseArgInvalidSkips ==
    /\ pc = "parse"
    /\ argi <= Len(argv)
    /\ ~IsInt(argv[argi])
    /\ argi' = argi + 1
    /\ UNCHANGED <<script, argv, output_dir_exists, years, sorted_years, yi, pc,
                   fetch_vars, hist_vars, files, year, data, inflight>>
    /\ UNCHANGED <<report, val>>


\* except ValueError: sys.exit(1)
ParseArgInvalid ==
    /\ pc = "parse"
    /\ argi <= Len(argv)
    /\ ~IsInt(argv[argi])
    /\ pc' = "exit1"
    /\ UNCHANGED <<main_vars, fetch_vars, hist_vars, files, year, data, inflight>>
    /\ UNCHANGED <<report, val>>


\* After the argument loop: if not years: exit; if not output_dir.exists(): exit;
\* otherwise enter for year in sorted(years)
OpenOutputDir ==
    /\ pc = "parse"
    /\ argv # <<>>
    /\ argi > Len(argv)
    /\ IF years = <<>> \/ ~output_dir_exists
       THEN pc' = "exit1" /\ UNCHANGED sorted_years
       ELSE pc' = "loop" /\ sorted_years' = SortedYears(years)
    /\ UNCHANGED <<script, argv, output_dir_exists, years, argi, yi,
                   fetch_vars, hist_vars, files, year, data, inflight>>
    /\ UNCHANGED <<report, val>>


-----------------------------------------------------------------------------
(* fetch_year: windowed mode *)

\* The locals of fetch_year / fetch_year_rest once the call has returned
Returned ==
    /\ current_date' = None
    /\ end_of_year' = None
    /\ end_date' = None
    /\ week_num' = 0
    /\ prices' = <<>>
    /\ inflight' = None

\* The raw records of one response: any Instants the service reports for the
\* year, in any order, repeats included
Responses == SeqsUpTo(ServiceInstants(year), MaxInput - Len(argv) - delivered)

\* for year in sorted(years): data = await fetch_year(year), up to the while loop
FetchYear ==
    /\ pc = "loop"
    /\ script = "data"
    /\ yi <= Len(sorted_years)
    /\ year' = sorted_years[yi]
    /\ prices' = <<>>
    /\ current_date' = <<sorted_years[yi], 1, 1>>
    /\ end_of_year' = <<sorted_years[yi], 12, 31>>
    /\ week_num' = 1
    /\ pc' = "while"
    /\ log' = <<>>
    /\ windows' = <<>>
    /\ fetch_failed' = FALSE
    /\ UNCHANGED <<main_vars, files, end_date, data, inflight, delivered, outcomes, fetched>>
    /\ UNCHANGED <<report, val>>


\* Variant: the window end is not clipped to the end of the year
WindowEndUnclipped(cur, eoy) == FromOrdinal(ToOrdinal(cur) + 7)

\* end_date = min(current_date + 7, end_of_year)
WindowEnd(cur, eoy) == FromOrdinal(Min(ToOrdinal(cur) + 7, ToOrdinal(eoy)))

\* current_date = end_date + 1
NextWindowStart(ed) == FromOrdinal(ToOrdinal(ed) + 1)

\* while current_date <= end_of_year: compute end_date and
\* await client.get_electricity_prices(start_date=current_date, end_date=end_date)
RequestWindow ==
    /\ pc = "while"
    /\ DateLeq(current_date, end_of_year)
    /\ end_date' = WindowEnd(current_date, end_of_year)
    /\ inflight' = << <<current_date, end_date'>> >>
    /\ windows' = Append(windows, <<current_date, end_date'>>)
    /\ log' = <<>>
    /\ fetched' = TRUE
    /\ pc' = "await"
    /\ UNCHANGED <<main_vars, files, year, current_date, end_of_year, week_num, prices,
                   data, delivered, outcomes, fetch_failed>>
    /\ UNCHANGED <<report, val>>


\* The response arrives: the conversion loop, then current_date = end_date + 1
ReceiveWindow ==
    /\ pc = "await"
    /\ script = "data"
    /\ \E resp \in Responses :
          /\ log' = ConvertWindow(resp, year, None)
          /\ prices' = prices \o Appended(log')
          /\ delivered' = delivered + Len(resp)
    /\ current_date' = NextWindowStart(end_date)
    /\ week_num' = week_num + 1
    /\ inflight' = None
    /\ pc' = "while"
    /\ UNCHANGED <<main_vars, files, year, end_of_year, end_date, data,
                   windows, outcomes, fetched, fetch_failed>>
    /\ UNCHANGED <<report, val>>


\* Variant: a failed window is passed over and the next one is requested
WindowFailedGoesOn ==
    /\ pc = "await"
    /\ script = "data"
    /\ fetch_failed' = TRUE
    /\ current_date' = FromOrdinal(ToOrdinal(end_date) + 1)
    /\ week_num' = week_num + 1
    /\ inflight' = None
    /\ pc' = "while"
    /\ UNCHANGED <<main_vars, files, year, end_of_year, end_date, prices, data,
                   log, windows, delivered, outcomes, fetched>>
    /\ UNCHANGED <<report, val>>

\* Variant: a failed window returns the series accumulated so far
WindowFailedReturnsPartial ==
    /\ pc = "await"
    /\ script = "data"
    /\ data' = <<YearSeries(year, prices)>>
    /\ fetch_failed' = TRUE
    /\ Returned
    /\ pc' = "returned"
    /\ UNCHANGED <<main_vars, files, year, log, windows, delivered, outcomes, fetched>>
    /\ UNCHANGED <<report, val>>


\* except Exception as e: return None
WindowFailed ==
    /\ pc = "await"
    /\ script = "data"
    /\ data' = None
    /\ fetch_failed' = TRUE
    /\ Returned
    /\ pc' = "returned"
    /\ UNCHANGED <<main_vars, files, year, log, windows, delivered, outcomes, fetched>>
    /\ UNCHANGED <<report, val>>


\* The while loop is left: count, the day counts and the expected count are
\* computed and printed, and the series is returned
ReturnSeries ==
    /\ pc = "while"
    /\ ~DateLeq(current_date, end_of_year)
    /\ report' = <<ValidateData(prices, year)>>
    /\ data' = <<YearSeries(year, prices)>>
    /\ Returned
    /\ pc' = "returned"
    /\ UNCHANGED <<main_vars, files, year, hist_vars>>
    /\ UNCHANGED val


-----------------------------------------------------------------------------
(* fetch_year_rest: whole-year mode *)

\* from_utc = {year-1}-12-31T23:00:00.000Z, till_utc = {year}-12-31T22:59:59.999Z:
\* the hours of the range are FirstHour(year) .. NextYearHour(year) - 1
FetchYearRest ==
    /\ pc = "loop"
    /\ script = "rest"
    /\ yi <= Len(sorted_years)
    /\ year' = sorted_years[yi]
    /\ inflight' = << <<FirstHour(sorted_years[yi]), NextYearHour(sorted_years[yi]) - 1>> >>
    /\ windows' = <<>>
    /\ log' = <<>>
    /\ fetched' = TRUE
    /\ fetch_failed' = FALSE
    /\ pc' = "await"
    /\ UNCHANGED <<main_vars, files, fetch_vars, data, delivered, outcomes>>
    /\ UNCHANGED <<report, val>>


\* response.status == 200: the conversion loop, prices.sort, the checks, return
ReceiveRest ==
    /\ pc = "await"
    /\ script = "rest"
    /\ \E resp \in Responses :
          /\ log' = ConvertRest(resp, year)
          /\ data' = <<YearSeries(year, SortByTimestamp(Appended(log')))>>
          /\ report' = <<ValidateRest(SortByTimestamp(Appended(log')), year)>>
          /\ delivered' = delivered + Len(resp)
    /\ Returned
    /\ pc' = "returned"
    /\ UNCHANGED <<main_vars, files, year, windows, outcomes, fetched, fetch_failed>>
    /\ UNCHANGED val


\* if response.status != 200: return None
RestHttpError ==
    /\ pc = "await"
    /\ script = "rest"
    /\ data' = None
    /\ fetch_failed' = TRUE
    /\ Returned
    /\ pc' = "returned"
    /\ UNCHANGED <<main_vars, files, year, log, windows, delivered, outcomes, fetched>>
    /\ UNCHANGED <<report, val>>


\* session.get or response.json raises (connection refused, timeout, invalid
\* body): no handler in fetch_year_rest or main, asyncio.run re-raises and the
\* process ends with a traceback
RestTransportError ==
    /\ pc = "await"
    /\ script = "rest"
    /\ fetch_failed' = TRUE
    /\ inflight' = None
    /\ pc' = "crashed"
    /\ UNCHANGED <<main_vars, files, year, fetch_vars, data, log, windows,
                   delivered, outcomes, fetched>>
    /\ UNCHANGED <<report, val>>


-----------------------------------------------------------------------------
(* main: the year loop *)

\* if data is None: continue
SkipYear ==
    /\ pc = "returned"
    /\ data = None
    /\ outcomes' = Append(outcomes, "skipped")
    /\ yi' = yi + 1
    /\ pc' = "loop"
    /\ UNCHANGED <<script, argv, output_dir_exists, years, argi, sorted_years,
                   files, year, fetch_vars, data, inflight, log, windows,
                   delivered, fetched, fetch_failed>>
    /\ UNCHANGED <<report, val>>


\* with open(output_file, 'w') as f: json.dump(data, f)
WriteFile ==
    /\ pc = "returned"
    /\ data # None
    /\ files' = [files EXCEPT ![year] = data]
    /\ outcomes' = Append(outcomes, "saved")
    /\ yi' = yi + 1
    /\ pc' = "loop"
    /\ UNCHANGED <<script, argv, output_dir_exists, years, argi, sorted_years,
                   year, fetch_vars, data, inflight, log, windows,
                   delivered, fetched, fetch_failed>>
    /\ UNCHANGED <<report, val>>


\* The year loop is exhausted: KLAAR
Finish ==
    /\ pc = "loop"
    /\ yi > Len(sorted_years)
    /\ pc' = "done"
    /\ UNCHANGED <<main_vars, files, year, fetch_vars, data, inflight, hist_vars>>
    /\ UNCHANGED <<report, val>>


Next ==
    \/ UsageExit
    \/ ParseArg
    \/ ParseArgInvalid
    \/ OpenOutputDir
    \/ FetchYear
    \/ RequestWindow
    \/ ReceiveWindow
    \/ WindowFailed
    \/ ReturnSeries
    \/ FetchYearRest
    \/ ReceiveRest
    \/ RestHttpError
    \/ RestTransportError
    \/ SkipYear
    \/ WriteFile
    \/ Finish

Spec == Init /\ [][Next]_vars

-----------------------------------------------------------------------------
(* Properties *)

Jan1(y)  == <<y, 1, 1>>
Dec31(y) == <<y, 12, 31>>

\* The two DST transition days of a year
DstDays(y) == {LastSunday(y, 3), LastSunday(y, 10)}

\* fetch_year has left its while loop normally and returned the series
PlanComplete == script = "data" /\ pc = "returned" /\ data # None

\* The series the records of log went into
Result ==
    IF script = "data" /\ pc = "while" THEN prices
    ELSE IF data # None THEN data[1].prices ELSE <<>>

NoSharedInstant(ps) ==
    \A i, j \in DOMAIN ps : i # j => ps[i].utc # ps[j].utc

SortedByTextThenInstant(ps) ==
    \A i \in 1..(Len(ps) - 1) :
        \/ TsLess(ps[i].timestamp, ps[i + 1].timestamp)
        \/ ps[i].timestamp = ps[i + 1].timestamp /\ ps[i].utc <= ps[i + 1].utc

\* A window lies inside year y, start not after end, and spans at most 8 civil days
InYearAtMost8Days(w, y) ==
    /\ DateLeq(Jan1(y), w[1])
    /\ DateLeq(w[1], w[2])
    /\ DateLeq(w[2], Dec31(y))
    /\ ToOrdinal(w[2]) - ToOrdinal(w[1]) + 1 <= 8

HasInvalidArg == \E i \in DOMAIN argv : ~IsInt(argv[i])

\* C1: in windowed mode the end date of every requested window equals the
\* start date of the window requested after it (one day of overlap).
C1_ConsecutiveWindowsShareBoundary ==
    \A i \in 1..(Len(windows) - 1) : windows[i][2] = windows[i + 1][1]

\* C2: in windowed mode a DST transition day that is the last day of a window
\* is requested again by the following window, and once the plan of a year is
\* complete each DST day lies in some window of which it is not the last day.
C2_DstDayNotOnlyLastDayOfWindow ==
    script = "data" =>
        /\ \A i \in 1..(Len(windows) - 1) :
              windows[i][2] \in DstDays(year) =>
                  /\ DateLeq(windows[i + 1][1], windows[i][2])
                  /\ DateLeq(windows[i][2], windows[i + 1][2])
        /\ PlanComplete =>
              \A d \in DstDays(year) :
                  \E i \in DOMAIN windows :
                      /\ DateLeq(windows[i][1], d)
                      /\ ToOrdinal(d) < ToOrdinal(windows[i][2])

\* C3: no two kept entries of a year's series come from the same Instant,
\* in the series being accumulated, in the series returned and in the file.
C3_NoTwoKeptEntriesShareInstant ==
    /\ NoSharedInstant(prices)
    /\ data # None => NoSharedInstant(data[1].prices)
    /\ \A y \in DOMAIN files : files[y] # None => NoSharedInstant(files[y][1].prices)

\* C4: the returned and the persisted prices are sorted ascending by timestamp
\* text, entries of equal text with the earlier Instant first.
C4_PersistedSortedByTextThenInstant ==
    /\ data # None => SortedByTextThenInstant(data[1].prices)
    /\ \A y \in DOMAIN files :
          files[y] # None => SortedByTextThenInstant(files[y][1].prices)

\* C5: a batch that entered the year loop ends only after every requested year
\* was either saved or skipped: a failed fetch never ends the batch.
C5_FetchFailureNeverEndsBatch ==
    (sorted_years # <<>> /\ pc \notin {"loop", "while", "await", "returned"})
        => Len(outcomes) = Len(sorted_years)

\* C6: the step in which a fetch fails leaves the files unchanged, returns no
\* series and drops the accumulated prices; a file changes only in the step
\* after the series was returned, with no fetch of the year failed and, in
\* windowed mode, every window up to December 31 fetched.
C6_AbortedYearWritesNothing ==
    [][ /\ (~fetch_failed /\ fetch_failed') =>
              /\ files' = files
              /\ prices' = <<>>
              /\ script = "data" => (data' = None /\ pc' = "returned")
        /\ (fetch_failed /\ pc = "returned") => (pc' = "loop" /\ files' = files)
        /\ files' # files =>
              /\ ~fetch_failed
              /\ pc = "returned"
              /\ data # None
              /\ script = "data" =>
                    (windows # <<>> /\ windows[Len(windows)][2] = Dec31(year))
      ]_vars

\* A window failed after earlier windows had delivered records, the year was
\* skipped and the file already at its path is as it was.
C6_Witness ==
    /\ script = "data"
    /\ fetch_failed
    /\ Len(windows) >= 2
    /\ delivered > 0
    /\ outcomes # <<>>
    /\ outcomes[Len(outcomes)] = "skipped"
    /\ files[year] = OldFile(year)

\* C7: the Instant of every raw record of the target year is in the series,
\* so two records of different Instants are both kept, the two Instants of
\* the repeated local hour included.
C7_DistinctInstantsBothKept ==
    \A i \in DOMAIN log :
        LocalYear(log[i].utc) = year =>
            \E k \in DOMAIN Result : Result[k].utc = log[i].utc

\* The two hours of the clocks-back day arrived in one response of the
\* windowed script, with the same timestamp text, and both were kept.
C7_Witness ==
    /\ script = "data"
    /\ Strftime(FallFirst(year)) = Strftime(FallSecond(year))
    /\ \E i, j \in DOMAIN log :
          /\ i < j
          /\ log[i].utc = FallFirst(year) /\ log[i].kept
          /\ log[j].utc = FallSecond(year) /\ log[j].kept
    /\ \E k, l \in DOMAIN Result :
          /\ k # l
          /\ Result[k].timestamp = Result[l].timestamp
          /\ Result[k].utc # Result[l].utc

\* C8 as stated: a raw record is dropped if and only if its local year
\* differs from the target year.
C8_DroppedIffOtherLocalYear ==
    \A i \in DOMAIN log : (~log[i].kept) <=> (LocalYear(log[i].utc) # year)

\* C8 amended: a record of another local year is always dropped; a record of
\* the target year is dropped only by the windowed script and only when its
\* Instant is that of the record kept last before it in the same response;
\* every entry of a series has a timestamp of the target year; the hour at
\* Dec 31 23:00 UTC of the previous year is in the series and the record at
\* Dec 31 23:00 UTC of the target year is dropped.
C8_YearFilterByLocalTime ==
    /\ \A i \in DOMAIN log :
          /\ LocalYear(log[i].utc) # year => ~log[i].kept
          /\ (LocalYear(log[i].utc) = year /\ ~log[i].kept) =>
                /\ script = "data"
                /\ \E j \in 1..(i - 1) :
                      /\ log[j].kept
                      /\ log[j].utc = log[i].utc
                      /\ \A k \in (j + 1)..(i - 1) : ~log[k].kept
          /\ log[i].utc = FirstHour(year) =>
                \E k \in DOMAIN Result : Result[k].utc = FirstHour(year)
          /\ log[i].utc = NextYearHour(year) => ~log[i].kept
    /\ \A k \in DOMAIN prices : prices[k].timestamp[1] = year
    /\ data # None => \A k \in DOMAIN data[1].prices :
                          data[1].prices[k].timestamp[1] = data[1].year
    /\ \A y \in DOMAIN files :
          files[y] # None => \A k \in DOMAIN files[y][1].prices :
                                 files[y][1].prices[k].timestamp[1] = y

\* One response held the hour at Dec 31 23:00 UTC of the previous year, which
\* was kept, and the hour at Dec 31 23:00 UTC of the target year, which was dropped.
C8_Witness ==
    \E i, j \in DOMAIN log :
        /\ log[i].utc = FirstHour(year) /\ log[i].kept
        /\ log[j].utc = NextYearHour(year) /\ ~log[j].kept
        /\ UtcYear(log[i].utc) # year
        /\ UtcYear(log[j].utc) = year

\* C9: the first window requested starts on January 1 and the window requested
\* last lies inside the year and spans at most 8 days; once the plan of a year
\* is complete, it is a sequence of windows in ascending order, each inside the
\* year and at most 8 days long, the last ends on December 31 and every day
\* of the year lies in a window.
C9_WindowsCoverYear ==
    (script = "data" /\ windows # <<>>) =>
        /\ windows[1][1] = Jan1(year)
        /\ InYearAtMost8Days(windows[Len(windows)], year)
        /\ PlanComplete =>
              /\ windows[Len(windows)][2] = Dec31(year)
              /\ \A i \in DOMAIN windows :
                    /\ InYearAtMost8Days(windows[i], year)
                    /\ i > 1 => ToOrdinal(windows[i - 1][1]) < ToOrdinal(windows[i][1])
              /\ (ToOrdinal(Jan1(year))..ToOrdinal(Dec31(year))) \subseteq
                    UNION { ToOrdinal(windows[i][1])..ToOrdinal(windows[i][2]) :
                                i \in DOMAIN windows }

\* The plan of a leap year is complete and its last window is shorter than 8 days.
C9_Witness ==
    /\ PlanComplete
    /\ IsLeap(year)
    /\ Len(windows) > 1
    /\ windows[Len(windows)][2] = Dec31(year)
    /\ ToOrdinal(windows[Len(windows)][2]) - ToOrdinal(windows[Len(windows)][1]) + 1 < 8

\* C10: with an argument that is no integer the run never gets past that
\* argument, issues no fetch request and saves no file.
C10_InvalidArgStopsBeforeFetch ==
    HasInvalidArg =>
        /\ pc \in {"parse", "exit1"}
        /\ \A i \in 1..(argi - 1) : IsInt(argv[i])
        /\ ~fetched
        /\ inflight = None
        /\ outcomes = <<>>
        /\ sorted_years = <<>>

\* The run ended with an error at an invalid argument that follows a valid year.
C10_Witness ==
    /\ pc = "exit1"
    /\ Len(argv) >= 2
    /\ IsInt(argv[1])
    /\ ~IsInt(argv[2])
    /\ years # <<>>

\* The days of a series with fewer than 23 entries
ShortDays(ps) == DaysIncomplete(DayCounts(ps))

\* C11: every day of the returned series with fewer than 23 entries is in the
\* printed report as incomplete, with the local hours it lacks; the series
\* returned is the one that was checked and it is what the file then holds.
C11_IncompleteDaysReported ==
    /\ data # None =>
          /\ report # None
          /\ \A d \in ShortDays(data[1].prices) :
                /\ d \in DOMAIN report[1].incomplete
                /\ report[1].incomplete[d] = MissingHours(data[1].prices, d)
    /\ (outcomes # <<>> /\ outcomes[Len(outcomes)] = "saved" /\ pc = "loop") =>
          files[year] = data

\* C12: in every file the count field is the number of entries of prices,
\* and so it is in the series returned.
C12_CountIsLengthOfPrices ==
    /\ \A y \in DOMAIN files :
          files[y] # None => files[y][1].count = Len(files[y][1].prices)
    /\ data # None => data[1].count = Len(data[1].prices)

\* A series of two entries fetched in this run has been saved.
C12_Witness ==
    /\ pc = "loop"
    /\ outcomes # <<>>
    /\ outcomes[Len(outcomes)] = "saved"
    /\ files[year] # None
    /\ files[year] # OldFile(year)
    /\ Len(files[year][1].prices) = 2
    /\ files[year][1].count = 2

\* C14: in the windowed script a request is in flight only while main waits
\* for it; a window is requested only when none is in flight and the responses
\* of all windows requested before it were processed; and from the step in
\* which a fetch fails until the next year starts nothing is in flight and no
\* window is requested.
C14_RequestsSequentialAbortTerminal ==
    [][ script = "data" =>
          /\ (windows' # windows /\ windows' # <<>>) =>
                /\ inflight = None
                /\ pc = "while"
                /\ ~fetch_failed
                /\ Len(windows) = week_num - 1
                /\ windows' = Append(windows, inflight'[1])
          /\ (inflight # None) => (pc = "await" /\ inflight[1] = windows[Len(windows)])
          /\ (inflight # None /\ inflight' = None /\ ~fetch_failed') =>
                (week_num' = Len(windows) + 1 /\ pc' = "while")
          /\ fetch_failed' => (inflight' = None /\ pc' \in {"returned", "loop", "done"})
          /\ (fetch_failed /\ fetch_failed') => windows' = windows
      ]_vars

\* The second window or a later one failed after the responses before it had
\* been processed, and the year was given up with its later windows unrequested.
C14_Witness ==
    /\ script = "data"
    /\ fetch_failed
    /\ pc = "returned"
    /\ Len(windows) >= 2
    /\ windows[Len(windows)][2] # Dec31(year)
    /\ inflight = None

-----------------------------------------------------------------------------
(* The checks on the count, applied to the day counts of whole-year series *)

\* Years the count checks are tried on: common, leap, and both kinds of century year
CountYears == {1900, 2000, 2023, 2024, 2100}

\* All civil days of year y, as days_by_date has them
DaysOfYear(y) == {FromOrdinal(n) : n \in ToOrdinal(<<y, 1, 1>>)..ToOrdinal(<<y, 12, 31>>)}

\* The last seven days of month m (March or October)
LastWeek(y, m) == {<<y, m, d>> : d \in 25..31}

\* days_by_date of a series of year y with 23 entries on day s, 25 entries
\* on day f and 24 entries on every other day of D (s or f may be None)
DayCountsOf(D, s, f) ==
    [d \in D |-> IF d = s THEN 23 ELSE IF d = f THEN 25 ELSE 24]

\* len(prices) of a series whose entries per day are cnt: every entry of
\* prices is counted under exactly one day of days_by_date
RECURSIVE SeriesLength(_, _, _)
SeriesLength(cnt, from, till) ==
    IF from > till THEN 0
    ELSE IF from = till
         THEN (IF FromOrdinal(from) \in DOMAIN cnt THEN cnt[FromOrdinal(from)] ELSE 0)
         ELSE SeriesLength(cnt, from, (from + till) \div 2)
              + SeriesLength(cnt, ((from + till) \div 2) + 1, till)

InitCounts ==
    /\ script \in {"data", "rest"}
    /\ \E y \in CountYears :
       \E s \in {None} \cup LastWeek(y, 3) :
       \E f \in {None} \cup LastWeek(y, 10) :
       \E D \in {DaysOfYear(y), DaysOfYear(y) \ {<<y, 12, 31>>}} :
          val = << [year |-> y, cnt |-> DayCountsOf(D, s, f), done |-> FALSE,
                    count |-> 0, days_23h |-> {}, days_25h |-> {},
                    expected_count |-> 0, verdict |-> "none"] >>
    /\ argv = <<>>
    /\ output_dir_exists = TRUE
    /\ files = [y \in TargetYears |-> None]
    /\ pc = "checks"
    /\ years = <<>>
    /\ argi = 1
    /\ sorted_years = <<>>
    /\ yi = 1
    /\ year = 0
    /\ current_date = None
    /\ end_of_year = None
    /\ end_date = None
    /\ week_num = 0
    /\ prices = <<>>
    /\ data = None
    /\ inflight = None
    /\ log = <<>>
    /\ windows = <<>>
    /\ delivered = 0
    /\ outcomes = <<>>
    /\ fetched = FALSE
    /\ fetch_failed = FALSE
    /\ report = None

\* The result of the checks on the day counts of val
Checked(verdict) ==
    LET in == val[1]
    IN  << [in EXCEPT !.done = TRUE,
                      !.count = SeriesLength(in.cnt, ToOrdinal(<<in.year, 1, 1>>),
                                             ToOrdinal(<<in.year, 12, 31>>)),
                      !.days_23h = Days23h(in.cnt),
                      !.days_25h = Days25h(in.cnt),
                      !.expected_count = ExpectedCount(in.year),
                      !.verdict = verdict] >>

\* fetch_year, from count = len(prices) to the comparison with expected_count
ApplyChecksData ==
    /\ script = "data"
    /\ val # None
    /\ ~val[1].done
    /\ val' = Checked(VerdictData(
                  SeriesLength(val[1].cnt, ToOrdinal(<<val[1].year, 1, 1>>),
                               ToOrdinal(<<val[1].year, 12, 31>>)),
                  ExpectedCount(val[1].year)))
    /\ UNCHANGED <<main_vars, files, pc, year, fetch_vars, data, inflight, hist_vars, report>>

\* fetch_year_rest, from count = len(prices) to the comparison with expected_count
ApplyChecksRest ==
    /\ script = "rest"
    /\ val # None
    /\ ~val[1].done
    /\ val' = Checked(VerdictRest(
                  SeriesLength(val[1].cnt, ToOrdinal(<<val[1].year, 1, 1>>),
                               ToOrdinal(<<val[1].year, 12, 31>>)),
                  ExpectedCount(val[1].year)))
    /\ UNCHANGED <<main_vars, files, pc, year, fetch_vars, data, inflight, hist_vars, report>>

NextCounts == ApplyChecksData \/ ApplyChecksRest

SpecCounts == InitCounts /\ [][NextCounts]_vars

\* The series of val holds every day of its year, one day of 23 entries, one
\* day of 25 entries and 24 entries on every other day
OneShortOneLongDay ==
    /\ DOMAIN val[1].cnt = DaysOfYear(val[1].year)
    /\ Cardinality({d \in DOMAIN val[1].cnt : val[1].cnt[d] = 23}) = 1
    /\ Cardinality({d \in DOMAIN val[1].cnt : val[1].cnt[d] = 25}) = 1
    /\ \A d \in DOMAIN val[1].cnt : val[1].cnt[d] \in {23, 24, 25}

\* C13: expected_count is 8784 in a Gregorian leap year and 8760 otherwise,
\* and a series of every day of the year with exactly one 23-entry day, one
\* 25-entry day and 24 entries on the other days has count = expected_count
\* and is reported as matching.
C13_ExpectedCountAndMatch ==
    (val # None /\ val[1].done) =>
        /\ val[1].expected_count =
              (IF \/ (val[1].year % 4 = 0 /\ val[1].year % 100 # 0)
                  \/ val[1].year % 400 = 0
               THEN 8784 ELSE 8760)
        /\ OneShortOneLongDay =>
              /\ val[1].count = val[1].expected_count
              /\ val[1].verdict = "match"
              /\ Cardinality(val[1].days_23h) = 1
              /\ Cardinality(val[1].days_25h) = 1

\* The checks ran on a leap-year series with one 23-entry and one 25-entry
\* day and reported the 8784 entries as matching.
C13_Witness ==
    /\ val # None
    /\ val[1].done
    /\ IsLeap(val[1].year)
    /\ OneShortOneLongDay
    /\ val[1].count = 8784
    /\ val[1].verdict = "match"

====
